---- MODULE Spec2Model ----
(***************************************************************************)
(* cargo-usage-rules: aggregation of dependency usage-rules fragments and  *)
(* the marker-delimited merge with the existing output document.           *)
(*                                                                         *)
(* Text is a sequence of tokens.  The two marker strings are single        *)
(* tokens (neither can overlap itself or the other, so tokenising a file   *)
(* is unambiguous); a whitespace character is a token of WS; every other   *)
(* token is an opaque piece of non-whitespace text.                        *)
(***************************************************************************)
EXTENDS Integers, Sequences, FiniteSets, TLC

START_MARKER == "<!-- cargo-usage-rules-start -->"
END_MARKER == "<!-- cargo-usage-rules-end -->"
NL == "\n"
WS == {NL, " "}

\* ---------------------------------------------------------------- bounds
\* longest prior output file of a sync run / of a bare extraction, in tokens
MaxPriorLen == 2
MaxFileLen == 5
\* sync runs in a row
MaxRuns == 2
\* longest package list handed to the aggregator alone
MaxPkgs == 2

\* ------------------------------------------------------- Option / Result
None == [some |-> FALSE, val |-> <<>>]
Some(v) == [some |-> TRUE, val |-> v]
Ok(v) == [ok |-> TRUE, val |-> v]
Err == [ok |-> FALSE, val |-> <<>>]

\* ------------------------------------------------------- string helpers
\* variant: str::rfind, the last occurrence
rfind(s, t) ==
  IF \E i \in 1..Len(s) : s[i] = t
  THEN Some((CHOOSE i \in 1..Len(s) : s[i] = t /\ \A j \in (i+1)..Len(s) : s[j] # t) - 1)
  ELSE None

\* str::find of a marker: byte offset (here: token offset, 0-based) of the
\* first occurrence.
find(s, t) ==
  IF \E i \in 1..Len(s) : s[i] = t
  THEN Some((CHOOSE i \in 1..Len(s) : s[i] = t /\ \A j \in 1..(i-1) : s[j] # t) - 1)
  ELSE None

RECURSIVE trim_start(_)
trim_start(s) ==
  IF s = <<>> THEN <<>>
  ELSE IF Head(s) \in WS THEN trim_start(Tail(s)) ELSE s

RECURSIVE trim_end(_)
trim_end(s) ==
  IF s = <<>> THEN <<>>
  ELSE IF s[Len(s)] \in WS THEN trim_end(SubSeq(s, 1, Len(s) - 1)) ELSE s

trim_start_only(s) == trim_start(s)

trim(s) == trim_end(trim_start(s))

\* [String]::join
RECURSIVE join(_, _)
join(parts, sep) ==
  IF parts = <<>> THEN <<>>
  ELSE IF Len(parts) = 1 THEN parts[1]
  ELSE parts[1] \o sep \o join(Tail(parts), sep)

\* s[..pos] and s[pos..] with 0-based offsets
slice_to(s, pos) == SubSeq(s, 1, pos)
slice_from(s, pos) == SubSeq(s, pos + 1, Len(s))

contains(s, t) ==
  \E i \in 0..(Len(s) - Len(t)) : SubSeq(s, i + 1, i + Len(t)) = t

Count(s, t) == Cardinality({i \in 1..Len(s) : s[i] = t})

\* ------------------------------------------------------ fragment sources
\* Backing files of the dependencies' fragments (path -> text).  A path of
\* srcBad cannot be read or copied.
SrcText(path) ==
  CASE path = "p/usage-rules.md" -> <<"Content p">>
    [] path = "q/usage-rules.md" -> <<"Main q">>
    [] path = "q/usage_rules/async.md" -> <<"Async q">>
    [] path = "q/usage_rules/sync.md" -> <<"Sync q">>
    [] path = "r/usage_rules/async.md" -> <<"Async r">>
    [] path = "a/usage-rules.md" -> <<"Main">>
    [] path = "a/usage_rules/async.md" -> <<"Async content">>
    [] path = "m/usage-rules.md" -> <<"Main m", END_MARKER, "Tail m">>
    [] path = "d/usage-rules.md" -> <<"Main d">>
    [] path = "d/usage_rules/v1.2.md" -> <<"V d">>
    [] path = "n/usage_rules/orphan.md" -> <<"Orphan content">>
    [] path = "s/usage-rules.md" -> <<"Main s">>
    [] path = "s/usage_rules/s.md" -> <<"Sub s">>
    [] path = "p2/usage-rules.md" -> <<"Content p2">>
    [] path = "v/usage-rules.md" -> <<"Main v">>
    [] path = "v/usage_rules/v1.2.md" -> <<"V2 v">>
    [] path = "v/usage_rules/v1.3.md" -> <<"V3 v">>
    [] OTHER -> <<>>

\* scanner::UsageRuleSubFile
SubFile(rel, path) == [relative_path_name |-> rel, full_path |-> path]

\* scanner::UsageRules
UsageRules(name, version, main, subs) ==
  [package_name |-> name, package_version |-> version,
   main_file |-> main, sub_files |-> subs]

NoPath == [some |-> FALSE, val |-> ""]

PkgP == UsageRules(<<"p">>, "1.0.0", Some("p/usage-rules.md"), <<>>)
PkgQ == UsageRules(<<"q">>, "2.0.0", Some("q/usage-rules.md"),
                   <<SubFile(<<"async">>, "q/usage_rules/async.md"),
                     SubFile(<<"sync">>, "q/usage_rules/sync.md")>>)
PkgA == UsageRules(<<"a">>, "1.2.0", Some("a/usage-rules.md"),
                   <<SubFile(<<"async">>, "a/usage_rules/async.md")>>)
PkgM == UsageRules(<<"m">>, "0.1.0", Some("m/usage-rules.md"), <<>>)
\* a sub-file whose relative name holds a dot: usage_rules/v1.2.md
PkgD == UsageRules(<<"d">>, "0.3.0", Some("d/usage-rules.md"),
                   <<SubFile(<<"v1", ".", "2">>, "d/usage_rules/v1.2.md")>>)
\* shapes the scanner never yields but the aggregator accepts
PkgR == UsageRules(<<"r">>, "3.0.0", NoPath,
                   <<SubFile(<<"async">>, "r/usage_rules/async.md")>>)
PkgE == UsageRules(<<"e">>, "0.0.1", NoPath, <<>>)

SrcPaths ==
  {"p/usage-rules.md", "q/usage-rules.md", "q/usage_rules/async.md",
   "q/usage_rules/sync.md", "r/usage_rules/async.md", "m/usage-rules.md",
   "a/usage-rules.md", "a/usage_rules/async.md", "d/usage-rules.md",
   "d/usage_rules/v1.2.md", "n/usage_rules/orphan.md", "s/usage-rules.md",
   "s/usage_rules/s.md", "p2/usage-rules.md", "v/usage-rules.md",
   "v/usage_rules/v1.2.md", "v/usage_rules/v1.3.md"}

\* scanner::read_file_content
read_file_content(path, bad) ==
  IF path \in bad THEN Err ELSE Ok(SrcText(path))

\* --------------------------------------------------------------- scanner
\* metadata::Dependency
Dependency(name, version, path) == [name |-> name, version |-> version, path |-> path]

DepP == Dependency(<<"p">>, "1.0.0", "p")
DepQ == Dependency(<<"q">>, "2.0.0", "q")
DepM == Dependency(<<"m">>, "0.1.0", "m")
DepD == Dependency(<<"d">>, "0.3.0", "d")
\* sub-files only, no usage-rules.md at the root
DepN == Dependency(<<"n">>, "0.9.0", "n")
\* no usage rules at all
DepE == Dependency(<<"e">>, "0.0.1", "e")
\* a sub-file named like its package: usage_rules/s.md
DepS == Dependency(<<"s">>, "0.5.0", "s")
\* a second version of package p in the dependency graph
DepP2 == Dependency(<<"p">>, "2.0.0", "p2")
\* two sub-files whose names differ after their last dot only
DepV == Dependency(<<"v">>, "0.7.0", "v")

\* one entry WalkDir yields under usage_rules/: the path relative to that
\* directory (as tokens), the full path, and whether it is a regular file
WalkEntry(rel, path, is_file) == [rel |-> rel, full_path |-> path, is_file |-> is_file]

\* what is on disk at a dependency's path: whether usage-rules.md is a file
\* there, and the walk of its usage_rules/ directory in the order WalkDir
\* yields it (empty when the directory does not exist)
DepDisk(path) ==
  CASE path = "p" -> [main_file |-> Some("p/usage-rules.md"), walk |-> <<>>]
    [] path = "q" ->
         [main_file |-> Some("q/usage-rules.md"),
          walk |-> <<WalkEntry(<<>>, "q/usage_rules", FALSE),
                     WalkEntry(<<"async", ".md">>, "q/usage_rules/async.md", TRUE),
                     WalkEntry(<<"notes", ".txt">>, "q/usage_rules/notes.txt", TRUE),
                     WalkEntry(<<"sync", ".md">>, "q/usage_rules/sync.md", TRUE)>>]
    [] path = "m" -> [main_file |-> Some("m/usage-rules.md"), walk |-> <<>>]
    [] path = "d" ->
         [main_file |-> Some("d/usage-rules.md"),
          walk |-> <<WalkEntry(<<>>, "d/usage_rules", FALSE),
                     WalkEntry(<<"v1", ".", "2", ".md">>, "d/usage_rules/v1.2.md", TRUE)>>]
    [] path = "n" ->
         [main_file |-> NoPath,
          walk |-> <<WalkEntry(<<>>, "n/usage_rules", FALSE),
                     WalkEntry(<<"orphan", ".md">>, "n/usage_rules/orphan.md", TRUE)>>]
    [] path = "s" ->
         [main_file |-> Some("s/usage-rules.md"),
          walk |-> <<WalkEntry(<<>>, "s/usage_rules", FALSE),
                     WalkEntry(<<"s", ".md">>, "s/usage_rules/s.md", TRUE)>>]
    [] path = "p2" -> [main_file |-> Some("p2/usage-rules.md"), walk |-> <<>>]
    [] path = "v" ->
         [main_file |-> Some("v/usage-rules.md"),
          walk |-> <<WalkEntry(<<>>, "v/usage_rules", FALSE),
                     WalkEntry(<<"v1", ".", "2", ".md">>, "v/usage_rules/v1.2.md", TRUE),
                     WalkEntry(<<"v1", ".", "3", ".md">>, "v/usage_rules/v1.3.md", TRUE)>>]
    [] OTHER -> [main_file |-> NoPath, walk |-> <<>>]

\* Path::extension() == "md": the last component ends in ".md"
extension_is_md(rel) == rel # <<>> /\ rel[Len(rel)] = ".md"

\* str::trim_end_matches(".md"): every trailing ".md" is removed
RECURSIVE trim_end_matches_md(_)
trim_end_matches_md(rel) ==
  IF rel # <<>> /\ rel[Len(rel)] = ".md"
  THEN trim_end_matches_md(SubSeq(rel, 1, Len(rel) - 1))
  ELSE rel

\* the WalkDir loop of scan_for_usage_rules over walk[i..]
RECURSIVE scan_sub_files(_, _, _)
scan_sub_files(walk, i, sub_files) ==
  IF i > Len(walk) THEN sub_files
  ELSE IF walk[i].is_file /\ extension_is_md(walk[i].rel)
       THEN scan_sub_files(walk, i + 1,
                           Append(sub_files,
                                  SubFile(trim_end_matches_md(walk[i].rel),
                                          walk[i].full_path)))
       ELSE scan_sub_files(walk, i + 1, sub_files)

\* variant: a dependency without usage-rules.md is kept when it has sub-files
RECURSIVE scan_loop_keeps_sub_only(_, _, _)
scan_loop_keeps_sub_only(deps, i, results) ==
  IF i > Len(deps) THEN results
  ELSE LET disk == DepDisk(deps[i].path)
           sub_files == scan_sub_files(disk.walk, 1, <<>>)
       IN IF ~disk.main_file.some /\ sub_files = <<>>
          THEN scan_loop_keeps_sub_only(deps, i + 1, results)
          ELSE scan_loop_keeps_sub_only(deps, i + 1,
                                        Append(results,
                                               UsageRules(deps[i].name,
                                                          deps[i].version,
                                                          disk.main_file, sub_files)))

\* the loop of scan_for_usage_rules over dependencies[i..]
RECURSIVE scan_loop(_, _, _)
scan_loop(deps, i, results) ==
  IF i > Len(deps) THEN results
  ELSE LET disk == DepDisk(deps[i].path)
           main_file == disk.main_file
       IN IF ~main_file.some THEN scan_loop(deps, i + 1, results)
          ELSE scan_loop(deps, i + 1,
                         Append(results,
                                UsageRules(deps[i].name, deps[i].version, main_file,
                                           scan_sub_files(disk.walk, 1, <<>>))))

scan_for_usage_rules(deps) == Ok(scan_loop(deps, 1, <<>>))

\* ------------------------------------------------------------ aggregator
\* aggregator::PackageContentInfo
PackageContentInfo(rule) ==
  [name |-> rule.package_name,
   content |-> [main_file |-> rule.main_file, sub_files |-> rule.sub_files]]

\* the loop of aggregate_content over usage_rules[i..], results so far in acc
RECURSIVE aggregate_loop(_, _, _, _)
aggregate_loop(usage_rules_, remove_packages, i, acc) ==
  IF i > Len(usage_rules_) THEN acc
  ELSE IF \E k \in 1..Len(remove_packages) :
            remove_packages[k] = usage_rules_[i].package_name
       THEN aggregate_loop(usage_rules_, remove_packages, i + 1, acc)
       ELSE aggregate_loop(usage_rules_, remove_packages, i + 1,
                           Append(acc, PackageContentInfo(usage_rules_[i])))

\* variant: the exclusion list is matched against the first package only
aggregate_first_only(usage_rules_, remove_packages) ==
  IF usage_rules_ # <<>>
     /\ \E k \in 1..Len(remove_packages) :
          remove_packages[k] = usage_rules_[1].package_name
  THEN Ok([i \in 1..(Len(usage_rules_) - 1) |->
             PackageContentInfo(usage_rules_[i + 1])])
  ELSE Ok([i \in 1..Len(usage_rules_) |-> PackageContentInfo(usage_rules_[i])])

aggregate_content(usage_rules_, remove_packages) ==
  Ok(aggregate_loop(usage_rules_, remove_packages, 1, <<>>))

\* variant: no blank line between the heading and the content
sub_block_tight(relative_path_name, content) ==
  <<NL, "## ">> \o relative_path_name \o <<NL>> \o content

\* the block pushed for one sub-file: format!("\n## {}\n\n{}", name, content)
sub_block(relative_path_name, content) ==
  <<NL, "## ">> \o relative_path_name \o <<NL, NL>> \o content

\* the sub-file loop of get_aggregated_content; `?` returns the first error
RECURSIVE sub_parts(_, _, _, _)
sub_parts(sub_files, i, parts, bad) ==
  IF i > Len(sub_files) THEN Ok(parts)
  ELSE LET r == read_file_content(sub_files[i].full_path, bad)
       IN IF ~r.ok THEN Err
          ELSE sub_parts(sub_files, i + 1,
                         Append(parts,
                                sub_block(sub_files[i].relative_path_name, r.val)),
                         bad)

\* variant: a missing main file still contributes an (empty) part
get_aggregated_content_empty_main(pkg, bad) ==
  LET m == IF pkg.content.main_file.some
           THEN read_file_content(pkg.content.main_file.val, bad)
           ELSE Ok(<<>>)
  IN IF ~m.ok THEN Err
     ELSE LET ps == sub_parts(pkg.content.sub_files, 1, <<m.val>>, bad)
          IN IF ~ps.ok THEN Err ELSE Ok(join(ps.val, <<NL, NL>>))

get_aggregated_content(pkg, bad) ==
  LET m == IF pkg.content.main_file.some
           THEN read_file_content(pkg.content.main_file.val, bad)
           ELSE Ok(<<>>)
  IN IF ~m.ok THEN Err
     ELSE LET p0 == IF pkg.content.main_file.some THEN <<m.val>> ELSE <<>>
              ps == sub_parts(pkg.content.sub_files, 1, p0, bad)
          IN IF ~ps.ok THEN Err ELSE Ok(join(ps.val, <<NL, NL>>))

\* the existing output file as extract_agents_md_preamble sees it:
\* exists() and read_to_string(..).ok()
existing_content(file) ==
  IF file.kind = "file" THEN Some(file.text) ELSE None

\* variant: a start marker alone cuts the file there
extract_cut_at_start(file) ==
  LET existing == existing_content(file)
  IN IF ~existing.some THEN Ok(<<>>)
     ELSE LET s == find(existing.val, START_MARKER)
              e == find(existing.val, END_MARKER)
          IN IF s.some
             THEN LET before == slice_to(existing.val, s.val)
                      after == IF e.some
                               THEN slice_from(existing.val,
                                               e.val + Len(<<END_MARKER>>))
                               ELSE <<>>
                  IN Ok(trim(trim(before) \o trim(after)))
             ELSE Ok(trim(existing.val))

\* variant: the text before the start marker is not kept
extract_after_only(file) ==
  LET existing == existing_content(file)
  IN IF ~existing.some THEN Ok(<<>>)
     ELSE LET s == find(existing.val, START_MARKER)
              e == find(existing.val, END_MARKER)
          IN IF s.some /\ e.some
             THEN Ok(trim(slice_from(existing.val, e.val + Len(<<END_MARKER>>))))
             ELSE Ok(trim(existing.val))

extract_agents_md_preamble(file) ==
  LET existing == existing_content(file)
  IN IF ~existing.some THEN Ok(<<>>)
     ELSE LET s == find(existing.val, START_MARKER)
              e == find(existing.val, END_MARKER)
          IN IF s.some /\ e.some
             THEN LET before == slice_to(existing.val, s.val)
                      after_end_marker == e.val + Len(<<END_MARKER>>)
                      after == slice_from(existing.val, after_end_marker)
                  IN Ok(trim(trim(before) \o trim(after)))
             ELSE Ok(trim(existing.val))

\* variant: the link is followed by the inlined content
format_package_section_inlined(package, link_folder_name, bad) ==
  LET c == get_aggregated_content(package, bad)
      link == IF link_folder_name.some
              THEN <<"[">> \o package.name \o <<" usage rules](", "./">>
                     \o link_folder_name.val \o <<"/">> \o package.name
                     \o <<"/">> \o package.name \o <<".md", ")", NL, NL>>
              ELSE <<>>
  IN IF ~c.ok THEN Err
     ELSE Ok(<<"## ">> \o package.name \o <<" usage", NL>> \o link \o c.val)

\* variant: the content is read before the mode is looked at
format_package_section_reads_first(package, link_folder_name, bad) ==
  LET c == get_aggregated_content(package, bad)
  IN IF ~c.ok THEN Err
     ELSE IF link_folder_name.some
          THEN Ok(<<"## ">> \o package.name \o <<" usage", NL, "[">> \o package.name
                    \o <<" usage rules](", "./">> \o link_folder_name.val \o <<"/">>
                    \o package.name \o <<"/">> \o package.name \o <<".md", ")">>)
          ELSE Ok(<<"## ">> \o package.name \o <<" usage", NL>> \o c.val)

format_package_section(package, link_folder_name, bad) ==
  LET content ==
        IF link_folder_name.some
        THEN LET relative_path ==
                   <<"./">> \o link_folder_name.val \o <<"/">> \o package.name
                     \o <<"/">> \o package.name \o <<".md">>
             IN Ok(<<"[">> \o package.name \o <<" usage rules](">>
                     \o relative_path \o <<")">>)
        ELSE get_aggregated_content(package, bad)
  IN IF ~content.ok THEN Err
     ELSE Ok(<<"## ">> \o package.name \o <<" usage", NL>> \o content.val)

\* --------------------------------------------------------------- writer
\* the embedded general usage document, include_str!("../base.md"): opaque
BASE_MD == "base.md"

\* the sentences of the header's boilerplate
IMPORTANT_SENTENCE ==
  "IMPORTANT: Consult these usage rules early and often when working with the packages listed below."
BEFORE_SENTENCE ==
  "Before attempting to use any of these packages or to discover if you should use them, review their usage rules to understand the correct patterns, conventions, and best practices."
GENERAL_SENTENCE ==
  "There are general rules for rust, cargo, etc also contained directly in this file."
SEPARATE_FILES_SENTENCE ==
  "Each package's usage rules are contained in separate files within the linked folder."
REFER_SENTENCE ==
  "Please refer to the individual files for detailed usage instructions."

\* variant: folder mode adds the first of its two sentences only
generate_header_short(use_folder_mode) ==
  <<IMPORTANT_SENTENCE, " ", BEFORE_SENTENCE, NL, NL, GENERAL_SENTENCE>>
    \o (IF use_folder_mode THEN <<NL, NL, SEPARATE_FILES_SENTENCE>> ELSE <<>>)
    \o <<"## General Rust Usage", NL, NL, BASE_MD>>

generate_header(use_folder_mode) ==
  <<IMPORTANT_SENTENCE, " ", BEFORE_SENTENCE, NL, NL, GENERAL_SENTENCE>>
    \o (IF use_folder_mode
        THEN <<NL, NL, SEPARATE_FILES_SENTENCE, " ", REFER_SENTENCE>>
        ELSE <<>>)
    \o <<"## General Rust Usage", NL, NL, BASE_MD>>

\* variant: each section is put in front of the ones before it
RECURSIVE package_sections_reversed(_, _, _, _, _)
package_sections_reversed(packages, i, acc, link_folder_name, bad) ==
  IF i > Len(packages) THEN Ok(acc)
  ELSE LET r == format_package_section(packages[i], link_folder_name, bad)
       IN IF ~r.ok THEN Err
          ELSE package_sections_reversed(packages, i + 1, <<r.val>> \o acc,
                                         link_folder_name, bad)

\* variant: a package whose section cannot be rendered is left out
RECURSIVE package_sections_best_effort(_, _, _, _, _)
package_sections_best_effort(packages, i, acc, link_folder_name, bad) ==
  IF i > Len(packages) THEN Ok(acc)
  ELSE LET r == format_package_section(packages[i], link_folder_name, bad)
       IN package_sections_best_effort(packages, i + 1,
                                       IF r.ok THEN Append(acc, r.val) ELSE acc,
                                       link_folder_name, bad)

\* the loop pushing format_package_section(pkg)? for every package
RECURSIVE package_sections(_, _, _, _, _)
package_sections(packages, i, acc, link_folder_name, bad) ==
  IF i > Len(packages) THEN Ok(acc)
  ELSE LET r == format_package_section(packages[i], link_folder_name, bad)
       IN IF ~r.ok THEN Err
          ELSE package_sections(packages, i + 1, Append(acc, r.val),
                                link_folder_name, bad)

generated_section(header, sections) ==
  <<START_MARKER, NL, NL>> \o header \o <<NL>> \o join(sections, <<NL, NL>>)
    \o <<NL, END_MARKER, NL, NL>>

\* variant: an empty preamble is written too, with its separator
create_main_agents_file_always_sep(packages, pre, link_folder_name, bad) ==
  LET header == generate_header(link_folder_name.some)
      secs == package_sections(packages, 1, <<>>, link_folder_name, bad)
  IN IF ~secs.ok THEN Err
     ELSE LET g == generated_section(header, secs.val)
          IN Ok(IF pre.some THEN pre.val \o <<NL, NL>> \o g ELSE g)

\* variant: the preamble is written after the generated section
create_main_agents_file_section_first(packages, pre, link_folder_name, bad) ==
  LET header == generate_header(link_folder_name.some)
      secs == package_sections(packages, 1, <<>>, link_folder_name, bad)
  IN IF ~secs.ok THEN Err
     ELSE LET g == generated_section(header, secs.val)
          IN Ok(IF pre.some
                THEN IF pre.val = <<>> THEN g ELSE g \o pre.val \o <<NL, NL>>
                ELSE g)

create_main_agents_file(packages, pre, link_folder_name, bad) ==
  LET header == generate_header(link_folder_name.some)
      secs == package_sections(packages, 1, <<>>, link_folder_name, bad)
  IN IF ~secs.ok THEN Err
     ELSE LET g == generated_section(header, secs.val)
          IN Ok(IF pre.some
                THEN IF pre.val = <<>> THEN g ELSE pre.val \o <<NL, NL>> \o g
                ELSE g)

\* Path::file_name: the last component, unless the path ends in ".."
file_name(path) ==
  IF path = <<>> \/ path[Len(path)] = ".." THEN None
  ELSE Some(<<path[Len(path)]>>)

\* Path::with_extension("md") on a path of tokens: the extension of the last
\* component (what follows its last "." token, unless the component starts
\* with it) is replaced, or ".md" is appended when there is none.
with_extension_md(path) ==
  LET slashes == {i \in 1..Len(path) : path[i] = "/"}
      first == IF slashes = {} THEN 1
               ELSE (CHOOSE i \in slashes : \A j \in slashes : j <= i) + 1
      dots == {i \in (first + 1)..Len(path) : path[i] = "."}
  IN IF dots = {} THEN path \o <<".md">>
     ELSE SubSeq(path, 1, (CHOOSE i \in dots : \A j \in dots : j <= i) - 1)
            \o <<".md">>

\* variant: the links are built from the whole folder path
folder_name_whole_path(folder_path) ==
  IF folder_path = <<>> THEN <<"usage_rules">> ELSE folder_path

\* write_linked: the folder name used in the links, with its fallback
folder_name(folder_path) ==
  LET n == file_name(folder_path)
  IN IF n.some THEN n.val ELSE <<"usage_rules">>

\* destination of the main file: pkg_dir.join(format!("{}.md", pkg.name))
dest_main_file(folder_path, name) ==
  folder_path \o <<"/">> \o name \o <<"/">> \o name \o <<".md">>

\* destination of a sub-file
dest_sub_file_path(folder_path, name, relative_path_name) ==
  with_extension_md(folder_path \o <<"/">> \o name \o <<"/">> \o relative_path_name)

\* the copies write_linked makes for one package, in order
copy_list(folder_path, pkg) ==
  (IF pkg.content.main_file.some
   THEN <<[src |-> pkg.content.main_file.val,
           dest |-> dest_main_file(folder_path, pkg.name)]>>
   ELSE <<>>)
  \o [i \in 1..Len(pkg.content.sub_files) |->
        [src |-> pkg.content.sub_files[i].full_path,
         dest |-> dest_sub_file_path(folder_path, pkg.name,
                                     pkg.content.sub_files[i].relative_path_name)]]

\* variant: nothing is copied unless every copy can be made
copy_files_rollback(copies, i, fs, bad) ==
  IF \E k \in i..Len(copies) : copies[k].src \in bad
  THEN [ok |-> FALSE, fs |-> fs]
  ELSE [ok |-> TRUE,
        fs |-> [d \in DOMAIN fs \cup {copies[k].dest : k \in i..Len(copies)} |->
                  IF \E k \in i..Len(copies) : copies[k].dest = d
                  THEN SrcText(copies[CHOOSE k \in i..Len(copies) :
                                        /\ copies[k].dest = d
                                        /\ \A l \in (k + 1)..Len(copies) :
                                             copies[l].dest # d].src)
                  ELSE fs[d]]]

\* variant: the link folder is emptied before the copies are made
copy_files_fresh_folder(copies, i, fs, bad) ==
  IF \E k \in i..Len(copies) : copies[k].src \in bad
  THEN [ok |-> FALSE, fs |-> <<>>]
  ELSE [ok |-> TRUE,
        fs |-> [d \in {copies[k].dest : k \in i..Len(copies)} |->
                  SrcText(copies[CHOOSE k \in i..Len(copies) :
                                   /\ copies[k].dest = d
                                   /\ \A l \in (k + 1)..Len(copies) :
                                        copies[l].dest # d].src)]]

\* fs::copy of each pair in turn; the first failure returns, keeping what
\* was copied before it
RECURSIVE copy_files(_, _, _, _)
copy_files(copies, i, fs, bad) ==
  IF i > Len(copies) THEN [ok |-> TRUE, fs |-> fs]
  ELSE IF copies[i].src \in bad THEN [ok |-> FALSE, fs |-> fs]
  ELSE copy_files(copies, i + 1,
                  (copies[i].dest :> SrcText(copies[i].src)) @@ fs, bad)

\* ------------------------------------------------- the run's operations
\* one attempted operation of a run: a step of run() or a file operation,
\* with what it was applied to and whether it succeeded
IO(op, src, dest, ok) == [op |-> op, src |-> src, dest |-> dest, ok |-> ok]

\* cli::SyncArgs::output (its default)
output_path == <<"Agents.md">>

\* the reads of the sub-file loop of get_aggregated_content, up to the
\* first that fails
RECURSIVE sub_reads(_, _, _)
sub_reads(sub_files, i, bad) ==
  IF i > Len(sub_files) THEN <<>>
  ELSE LET ok == sub_files[i].full_path \notin bad
       IN <<IO("read", sub_files[i].full_path, <<>>, ok)>>
            \o (IF ok THEN sub_reads(sub_files, i + 1, bad) ELSE <<>>)

\* the reads get_aggregated_content makes, up to the first that fails
aggregated_reads(pkg, bad) ==
  IF pkg.content.main_file.some
  THEN LET ok == pkg.content.main_file.val \notin bad
       IN <<IO("read", pkg.content.main_file.val, <<>>, ok)>>
            \o (IF ok THEN sub_reads(pkg.content.sub_files, 1, bad) ELSE <<>>)
  ELSE sub_reads(pkg.content.sub_files, 1, bad)

\* the reads format_package_section makes: none when it writes a link
section_reads(package, link_folder_name, bad) ==
  IF link_folder_name.some THEN <<>> ELSE aggregated_reads(package, bad)

\* the reads of the section loop of create_main_agents_file over
\* packages[i..], up to the first that fails
RECURSIVE sections_reads(_, _, _, _)
sections_reads(packages, i, link_folder_name, bad) ==
  IF i > Len(packages) THEN <<>>
  ELSE LET r == section_reads(packages[i], link_folder_name, bad)
       IN IF \E k \in 1..Len(r) : ~r[k].ok THEN r
          ELSE r \o sections_reads(packages, i + 1, link_folder_name, bad)

\* the read extract_agents_md_preamble makes of the output document: none
\* when it does not exist
output_reads(file) ==
  IF file.kind = "missing" THEN <<>>
  ELSE <<IO("read_output", "", output_path, file.kind = "file")>>

\* Path::parent: the path without its last component
parent(path) ==
  LET slashes == {i \in 1..Len(path) : path[i] = "/"}
  IN IF slashes = {} THEN <<>>
     ELSE SubSeq(path, 1, (CHOOSE i \in slashes : \A j \in slashes : j <= i) - 1)

\* the directory creations and copies write_linked attempts for one
\* package, in order
package_ops(folder_path, pkg) ==
  <<[op |-> "mkdir", src |-> "", dest |-> folder_path \o <<"/">> \o pkg.name]>>
  \o (IF pkg.content.main_file.some
      THEN <<[op |-> "copy", src |-> pkg.content.main_file.val,
              dest |-> dest_main_file(folder_path, pkg.name)]>>
      ELSE <<>>)
  \o join([i \in 1..Len(pkg.content.sub_files) |->
             LET d == dest_sub_file_path(folder_path, pkg.name,
                                         pkg.content.sub_files[i].relative_path_name)
             IN <<[op |-> "mkdir", src |-> "", dest |-> parent(d)],
                  [op |-> "copy", src |-> pkg.content.sub_files[i].full_path,
                   dest |-> d]>>],
          <<>>)

\* variant: an operation that fails is attempted a second time
RECURSIVE ops_log_retry(_, _, _, _)
ops_log_retry(ops, i, bad, dir_ok) ==
  IF i > Len(ops) THEN <<>>
  ELSE LET ok == IF ops[i].op = "mkdir" THEN i > 1 \/ dir_ok
                 ELSE ops[i].src \notin bad
       IN IF ok
          THEN <<IO(ops[i].op, ops[i].src, ops[i].dest, TRUE)>>
                 \o ops_log_retry(ops, i + 1, bad, dir_ok)
          ELSE <<IO(ops[i].op, ops[i].src, ops[i].dest, FALSE),
                 IO(ops[i].op, ops[i].src, ops[i].dest, FALSE)>>

\* the operations of one package as attempted, up to the first that fails:
\* the package directory cannot be created when ~dir_ok, a source of `bad`
\* cannot be copied
RECURSIVE ops_log(_, _, _, _)
ops_log(ops, i, bad, dir_ok) ==
  IF i > Len(ops) THEN <<>>
  ELSE LET ok == IF ops[i].op = "mkdir" THEN i > 1 \/ dir_ok
                 ELSE ops[i].src \notin bad
       IN <<IO(ops[i].op, ops[i].src, ops[i].dest, ok)>>
            \o (IF ok THEN ops_log(ops, i + 1, bad, dir_ok) ELSE <<>>)

\* main(): the exit code for the result of run()
exit_code(res) == IF res = "err" THEN 1 ELSE 0

\* ---------------------------------------------------------------- state
VARIABLES
  out,              \* the output document on disk: [kind, text]
  linkfs,           \* files under the link folder: destination path -> text
  dependencies,     \* what `cargo metadata` reports for the project
  usage_rules,      \* run(): result of scan_for_usage_rules
  sync_args,        \* cli::SyncArgs of the invocations
  pc,               \* where run() is
  package_content,  \* run(): result of aggregate_content
  preamble,         \* run(): result of extract_agents_md_preamble
  copied,           \* write_linked: packages whose copy phase is done
  result,           \* how the last run ended: "none", "ok" or "err"
  prior,            \* the output document when the current run started
  edit,             \* the user's edit of the output document, if any
  runs,             \* sync runs started
  wrote,            \* the current run has written the output document
  history,          \* per finished run: how it ended and the document it left
  rendered,         \* result of a bare get_aggregated_content call
  formatted,        \* result of a bare format_package_section call
  iolog             \* the operations the current run attempted, in order

vars == <<out, linkfs, dependencies, usage_rules, sync_args, pc, package_content,
          preamble, copied, result, prior, edit, runs, wrote, history, rendered,
          formatted, iolog>>

File(kind, text) == [kind |-> kind, text |-> text]
Missing == File("missing", <<>>)

BoundedSeq(S, n) == UNION {[1..k -> S] : k \in 0..n}

\* read or copy failures a step can meet
BadChoices == {{}, {"q/usage_rules/sync.md"}, {"p/usage-rules.md"}}

NoEdit == [kind |-> "none", text |-> <<>>, at |-> 0]
NoRender == [done |-> FALSE, pkg |-> <<>>, bad |-> {}, res |-> Err]
NoFormat == [done |-> FALSE, pkg |-> <<>>, link |-> None, bad |-> {}, res |-> Err,
             reads |-> <<>>]

SyncArgs(all, linked, link_folder, remove) ==
  [all |-> all, linked |-> linked, link_folder |-> link_folder, remove |-> remove,
   list |-> FALSE]

\* the `list` subcommand, which has no arguments
ListArgs == [SyncArgs(FALSE, TRUE, <<"usage_rules">>, <<>>) EXCEPT !.list = TRUE]

\* the invocations explored: sync inline and linked into out/docs, each
\* without and with an exclusion, and with --all (which only matters when
\* nothing is selected); sync linked into ".."; and list
ArgChoices ==
  {SyncArgs(f[1], m[1], m[2], f[2]) :
     f \in {<<FALSE, <<>>>>, <<FALSE, <<<<"p">>>>>>, <<TRUE, <<<<"p">>>>>>},
     m \in {<<FALSE, <<"usage_rules">>>>, <<TRUE, <<"out", "/", "docs">>>>}}
  \cup {SyncArgs(FALSE, TRUE, <<"..">>, <<>>), ListArgs}

\* dependency graphs explored by the runs
DepChoices ==
  {<<>>, <<DepP>>, <<DepQ, DepP>>, <<DepP, DepM>>, <<DepN, DepD>>}

PriorFiles ==
  {Missing, File("unreadable", <<"(bytes)">>)}
    \cup {File("file", t) :
            t \in BoundedSeq({START_MARKER, END_MARKER, NL, "a"}, MaxPriorLen)}

\* what the user may type before the start marker
InsertTexts ==
  {<<"x">>, <<NL, "x">>, <<"x", " ">>, <<START_MARKER>>}

Init ==
  /\ out \in PriorFiles
  /\ linkfs = <<>>
  /\ dependencies \in DepChoices
  /\ usage_rules = <<>>
  /\ sync_args \in ArgChoices
  /\ pc = "idle"
  /\ package_content = <<>>
  /\ preamble = <<>>
  /\ copied = 0
  /\ result = "none"
  /\ prior = out
  /\ edit = NoEdit
  /\ runs = 0
  /\ wrote = FALSE
  /\ history = <<>>
  /\ rendered = NoRender
  /\ formatted = NoFormat
  /\ iolog = <<>>

\* the command is invoked
Invoke ==
  /\ pc = "idle"
  /\ runs < MaxRuns
  /\ pc' = "fetch"
  /\ runs' = runs + 1
  /\ prior' = out
  /\ result' = "none"
  /\ usage_rules' = <<>>
  /\ package_content' = <<>>
  /\ preamble' = <<>>
  /\ copied' = 0
  /\ wrote' = FALSE
  /\ iolog' = <<>>
  /\ UNCHANGED <<out, linkfs, dependencies, sync_args, edit, history, rendered,
                 formatted>>

\* run(): metadata::fetch_dependencies()?
Fetch ==
  /\ pc = "fetch"
  /\ \E ok \in BOOLEAN :
       /\ iolog' = Append(iolog, IO("fetch", "", <<>>, ok))
       /\ IF ok THEN pc' = "metadata" /\ result' = result
          ELSE pc' = "done" /\ result' = "err"
  /\ UNCHANGED <<out, linkfs, dependencies, usage_rules, sync_args, package_content,
                 preamble, copied, prior, edit, runs, wrote, history, rendered,
                 formatted>>

\* run(): metadata::get_dependencies()?
GetDependencies ==
  /\ pc = "metadata"
  /\ \E ok \in BOOLEAN :
       /\ iolog' = Append(iolog, IO("metadata", "", <<>>, ok))
       /\ IF ok THEN pc' = "scan" /\ result' = result
          ELSE pc' = "done" /\ result' = "err"
  /\ UNCHANGED <<out, linkfs, dependencies, usage_rules, sync_args, package_content,
                 preamble, copied, prior, edit, runs, wrote, history, rendered,
                 formatted>>

\* run(): scanner::scan_for_usage_rules(&dependencies)? and the match on the
\* subcommand
Scan ==
  /\ pc = "scan"
  /\ LET r == scan_for_usage_rules(dependencies)
     IN /\ iolog' = Append(iolog, IO("scan", "", <<>>, r.ok))
        /\ usage_rules' = r.val
        /\ IF ~r.ok THEN pc' = "done" /\ result' = "err"
           ELSE /\ pc' = IF sync_args.list THEN "list" ELSE "aggregate"
                /\ result' = result
  /\ UNCHANGED <<out, linkfs, dependencies, sync_args, package_content, preamble,
                 copied, prior, edit, runs, wrote, history, rendered, formatted>>

\* run(): the list subcommand prints the packages found
List ==
  /\ pc = "list"
  /\ pc' = "done"
  /\ result' = "ok"
  /\ UNCHANGED <<out, linkfs, dependencies, usage_rules, sync_args, package_content,
                 preamble, copied, prior, edit, runs, wrote, history, rendered,
                 formatted, iolog>>

\* variant: the writer is called without the preamble being extracted
AggregateSkipsExtract ==
  /\ pc = "aggregate"
  /\ LET r == aggregate_content(usage_rules, sync_args.remove)
     IN /\ package_content' = r.val
        /\ iolog' = Append(iolog, IO("aggregate", "", <<>>, r.ok))
        /\ IF ~r.ok THEN pc' = "done" /\ result' = "err"
           ELSE IF r.val = <<>> /\ ~sync_args.all
                THEN pc' = "done" /\ result' = "ok"
                ELSE pc' = "write" /\ result' = result
  /\ UNCHANGED <<out, linkfs, dependencies, usage_rules, sync_args, preamble, copied,
                 prior, edit, runs, wrote, history, rendered, formatted>>

\* variant: an empty selection is written like any other
AggregateNoEarlyReturn ==
  /\ pc = "aggregate"
  /\ LET r == aggregate_content(usage_rules, sync_args.remove)
     IN /\ package_content' = r.val
        /\ iolog' = Append(iolog, IO("aggregate", "", <<>>, r.ok))
        /\ IF ~r.ok THEN pc' = "done" /\ result' = "err"
           ELSE pc' = "extract" /\ result' = result
  /\ UNCHANGED <<out, linkfs, dependencies, usage_rules, sync_args, preamble, copied,
                 prior, edit, runs, wrote, history, rendered, formatted>>

\* run(): aggregate_content and the early return on an empty selection
Aggregate ==
  /\ pc = "aggregate"
  /\ LET r == aggregate_content(usage_rules, sync_args.remove)
     IN /\ package_content' = r.val
        /\ iolog' = Append(iolog, IO("aggregate", "", <<>>, r.ok))
        /\ IF ~r.ok THEN pc' = "done" /\ result' = "err"
           ELSE IF r.val = <<>> /\ ~sync_args.all
                THEN pc' = "done" /\ result' = "ok"
                ELSE pc' = "extract" /\ result' = result
  /\ UNCHANGED <<out, linkfs, dependencies, usage_rules, sync_args, preamble, copied,
                 prior, edit, runs, wrote, history, rendered, formatted>>

\* run(): extract_agents_md_preamble(&sync_args.output)?
Extract ==
  /\ pc = "extract"
  /\ LET r == extract_agents_md_preamble(out)
     IN /\ iolog' = iolog \o output_reads(out)
                      \o <<IO("extract", "", output_path, r.ok)>>
        /\ IF r.ok
           THEN preamble' = r.val /\ pc' = "write" /\ result' = result
           ELSE preamble' = preamble /\ pc' = "done" /\ result' = "err"
  /\ UNCHANGED <<out, linkfs, dependencies, usage_rules, sync_args, package_content,
                 copied, prior, edit, runs, wrote, history, rendered, formatted>>

\* write_inline: compose, then one fs::write, which may fail
WriteInline ==
  /\ pc = "write"
  /\ ~sync_args.linked
  /\ \E bad \in BadChoices, write_ok \in BOOLEAN :
       LET content == create_main_agents_file(package_content, Some(preamble),
                                              None, bad)
       IN /\ iolog' = iolog \o sections_reads(package_content, 1, None, bad)
                      \o (IF content.ok
                          THEN <<IO("write", "", output_path, write_ok)>>
                          ELSE <<>>)
          /\ IF content.ok /\ write_ok
             THEN out' = File("file", content.val) /\ result' = "ok"
                    /\ wrote' = TRUE
             ELSE out' = out /\ result' = "err" /\ wrote' = wrote
  /\ pc' = "done"
  /\ UNCHANGED <<linkfs, dependencies, usage_rules, sync_args, package_content,
                 preamble, copied, prior, edit, runs, history, rendered, formatted>>

\* write_linked: one iteration of the copy loop (create_dir_all, the copy of
\* the main file, the copies of the sub-files)
CopyPackage ==
  /\ pc = "write"
  /\ sync_args.linked
  /\ copied < Len(package_content)
  /\ \E bad \in BadChoices, dir_ok \in BOOLEAN :
       LET pkg == package_content[copied + 1]
           r == copy_files(copy_list(sync_args.link_folder, pkg), 1, linkfs, bad)
       IN /\ iolog' = iolog \o ops_log(package_ops(sync_args.link_folder, pkg),
                                       1, bad, dir_ok)
          /\ IF ~dir_ok
             THEN linkfs' = linkfs /\ pc' = "done" /\ result' = "err"
                    /\ copied' = copied
             ELSE /\ linkfs' = r.fs
                  /\ IF r.ok
                     THEN pc' = pc /\ result' = result /\ copied' = copied + 1
                     ELSE pc' = "done" /\ result' = "err" /\ copied' = copied
  /\ UNCHANGED <<out, dependencies, usage_rules, sync_args, package_content,
                 preamble, prior, edit, runs, wrote, history, rendered, formatted>>

\* write_linked after the copy loop: folder name, compose, one fs::write
WriteLinkedMain ==
  /\ pc = "write"
  /\ sync_args.linked
  /\ copied = Len(package_content)
  /\ \E write_ok \in BOOLEAN :
       LET content == create_main_agents_file(package_content, Some(preamble),
                                              Some(folder_name(sync_args.link_folder)),
                                              {})
       IN /\ iolog' = iolog
                      \o (IF content.ok
                          THEN <<IO("write", "", output_path, write_ok)>>
                          ELSE <<>>)
          /\ IF content.ok /\ write_ok
             THEN out' = File("file", content.val) /\ result' = "ok"
                    /\ wrote' = TRUE
             ELSE out' = out /\ result' = "err" /\ wrote' = wrote
  /\ pc' = "done"
  /\ UNCHANGED <<linkfs, dependencies, usage_rules, sync_args, package_content,
                 preamble, copied, prior, edit, runs, history, rendered, formatted>>

\* main(): an error of run() is printed and the process exits with its code
Exit ==
  /\ pc = "done"
  /\ pc' = "idle"
  /\ history' = Append(history, [result |-> result, wrote |-> wrote, out |-> out,
                                 prior |-> prior,
                                 code |-> exit_code(result),
                                 printed |-> result = "err"])
  /\ iolog' = <<>>
  /\ UNCHANGED <<out, linkfs, dependencies, usage_rules, sync_args, package_content,
                 preamble, copied, result, prior, edit, runs, wrote, rendered,
                 formatted>>

\* between the first run and the second the user types text right before
\* the first start marker
UserInsert ==
  /\ pc = "idle"
  /\ runs = 1
  /\ edit.kind = "none"
  /\ out.kind = "file"
  /\ find(out.text, START_MARKER).some
  /\ \E t \in InsertTexts :
       LET pos == find(out.text, START_MARKER).val
       IN /\ out' = File("file", slice_to(out.text, pos) \o t
                                   \o slice_from(out.text, pos))
          /\ edit' = [kind |-> "insert", text |-> t, at |-> runs]
  /\ UNCHANGED <<linkfs, dependencies, usage_rules, sync_args, pc, package_content,
                 preamble, copied, result, prior, runs, wrote, history, rendered,
                 formatted, iolog>>

Next ==
  \/ Invoke
  \/ Fetch
  \/ GetDependencies
  \/ Scan
  \/ List
  \/ Aggregate
  \/ Extract
  \/ WriteInline
  \/ CopyPackage
  \/ WriteLinkedMain
  \/ Exit
  \/ UserInsert

Spec == Init /\ [][Next]_vars

\* ------------------------------------- extraction alone, on arbitrary files
ExtractFiles ==
  {Missing, File("unreadable", <<"(bytes)">>)}
    \cup {File("file", t) :
            t \in BoundedSeq({START_MARKER, END_MARKER, NL, " ", "a", "b"},
                             MaxFileLen)}

InitExtract ==
  /\ out \in ExtractFiles
  /\ linkfs = <<>>
  /\ dependencies = <<DepP>>
  /\ usage_rules = scan_for_usage_rules(dependencies).val
  /\ sync_args = SyncArgs(FALSE, FALSE, <<"usage_rules">>, <<>>)
  /\ pc = "extract"
  /\ package_content = aggregate_content(usage_rules, sync_args.remove).val
  /\ preamble = <<>>
  /\ copied = 0
  /\ result = "none"
  /\ prior = out
  /\ edit = NoEdit
  /\ runs = 1
  /\ wrote = FALSE
  /\ history = <<>>
  /\ rendered = NoRender
  /\ formatted = NoFormat
  /\ iolog = <<>>

NextExtract == Extract

SpecExtract == InitExtract /\ [][NextExtract]_vars

\* ------------------------------- the aggregator alone, on arbitrary packages
AggPackages == {PkgP, PkgQ, PkgA, PkgR, PkgE}
AggNames == {<<"p">>, <<"q">>, <<"r">>}

InitAgg ==
  /\ out = Missing
  /\ linkfs = <<>>
  /\ dependencies = <<>>
  /\ usage_rules \in BoundedSeq(AggPackages, MaxPkgs)
  /\ sync_args \in {SyncArgs(TRUE, FALSE, <<"usage_rules">>, r) :
                      r \in BoundedSeq(AggNames, MaxPkgs)}
  /\ pc = "aggregate"
  /\ package_content = <<>>
  /\ preamble = <<>>
  /\ copied = 0
  /\ result = "none"
  /\ prior = out
  /\ edit = NoEdit
  /\ runs = 1
  /\ wrote = FALSE
  /\ history = <<>>
  /\ rendered = NoRender
  /\ formatted = NoFormat
  /\ iolog = <<>>

\* PackageContentInfo::get_aggregated_content of one selected package
Render ==
  /\ pc = "extract"
  /\ ~rendered.done
  /\ \E i \in 1..Len(package_content), bad \in BadChoices :
       rendered' = [done |-> TRUE, pkg |-> package_content[i], bad |-> bad,
                    res |-> get_aggregated_content(package_content[i], bad)]
  /\ UNCHANGED <<out, linkfs, dependencies, usage_rules, sync_args, pc,
                 package_content, preamble, copied, result, prior, edit, runs, wrote,
                 history, formatted, iolog>>

NextAgg == Aggregate \/ Render

SpecAgg == InitAgg /\ [][NextAgg]_vars

\* ------------------- format_package_section alone, on arbitrary packages
FormatLinks == {None, Some(<<"usage_rules">>), Some(<<"docs">>)}

\* aggregator::format_package_section of one selected package
Format ==
  /\ pc = "extract"
  /\ ~formatted.done
  /\ \E i \in 1..Len(package_content), link \in FormatLinks, bad \in BadChoices :
       formatted' = [done |-> TRUE, pkg |-> package_content[i], link |-> link,
                     bad |-> bad,
                     res |-> format_package_section(package_content[i], link, bad),
                     reads |-> section_reads(package_content[i], link, bad)]
  /\ UNCHANGED <<out, linkfs, dependencies, usage_rules, sync_args, pc,
                 package_content, preamble, copied, result, prior, edit, runs, wrote,
                 history, rendered, iolog>>

NextFormat == Aggregate \/ Format

SpecFormat == InitAgg /\ [][NextFormat]_vars

\* ------------------ linked runs whose selection changes from run to run
\* the dependency graphs explored: two packages, one of them with
\* sub-files; a sub-file named like its package; two versions of one
\* package; sub-file names that differ after their last dot only
LinkedDeps == {<<DepQ, DepP>>, <<DepS>>, <<DepP, DepP2>>, <<DepV>>}

\* the exclusion lists explored
LinkedRemoves == {<<>>, <<<<"q">>>>}

LinkedArgs(remove) == SyncArgs(FALSE, TRUE, <<"out", "/", "docs">>, remove)

InitLinked ==
  /\ out = Missing
  /\ linkfs = <<>>
  /\ dependencies \in LinkedDeps
  /\ usage_rules = <<>>
  /\ sync_args \in {LinkedArgs(r) : r \in LinkedRemoves}
  /\ pc = "idle"
  /\ package_content = <<>>
  /\ preamble = <<>>
  /\ copied = 0
  /\ result = "none"
  /\ prior = out
  /\ edit = NoEdit
  /\ runs = 0
  /\ wrote = FALSE
  /\ history = <<>>
  /\ rendered = NoRender
  /\ formatted = NoFormat
  /\ iolog = <<>>

\* the command is invoked in linked mode, after the manifest's
\* dependencies may have changed and with an exclusion list of its own
InvokeLinked ==
  /\ pc = "idle"
  /\ runs < MaxRuns
  /\ \E d \in LinkedDeps, r \in LinkedRemoves :
       /\ dependencies' = d
       /\ sync_args' = LinkedArgs(r)
  /\ pc' = "fetch"
  /\ runs' = runs + 1
  /\ prior' = out
  /\ result' = "none"
  /\ usage_rules' = <<>>
  /\ package_content' = <<>>
  /\ preamble' = <<>>
  /\ copied' = 0
  /\ wrote' = FALSE
  /\ iolog' = <<>>
  /\ UNCHANGED <<out, linkfs, edit, history, rendered, formatted>>

NextLinked ==
  \/ InvokeLinked
  \/ Fetch
  \/ GetDependencies
  \/ Scan
  \/ Aggregate
  \/ Extract
  \/ CopyPackage
  \/ WriteLinkedMain
  \/ Exit

SpecLinked == InitLinked /\ [][NextLinked]_vars

\* ======================================================== properties
\* vocabulary of the properties, independent of the operators above
HasTok(s, t) == \E i \in 1..Len(s) : s[i] = t
AllWS(s) == \A i \in 1..Len(s) : s[i] \in WS

\* t is s without its leading and trailing whitespace
IsTrimOf(t, s) ==
  \E i \in 0..Len(s) : \E j \in i..Len(s) :
    /\ t = SubSeq(s, i + 1, j)
    /\ AllWS(SubSeq(s, 1, i))
    /\ AllWS(SubSeq(s, j + 1, Len(s)))
    /\ (t = <<>> \/ (t[1] \notin WS /\ t[Len(t)] \notin WS))

Trimmed(s) ==
  CHOOSE t \in {SubSeq(s, i + 1, j) : i \in 0..Len(s), j \in 0..Len(s)} :
    IsTrimOf(t, s)

NoMarkers(s) == ~HasTok(s, START_MARKER) /\ ~HasTok(s, END_MARKER)

\* the generated section a run composes, with no preamble before it
FreshSection ==
  create_main_agents_file(
    package_content, None,
    IF sync_args.linked THEN Some(folder_name(sync_args.link_folder)) ELSE None,
    {}).val

\* the user edited the document between run i and run i + 1
EditedAfter(i) == edit.kind = "insert" /\ edit.at = i

\* C6: extraction of a missing output file yields the empty preamble and no
\* error; extraction of a file without markers yields the file content with
\* its leading and trailing whitespace removed and nothing else changed.
C6_MissingAndUnmarked ==
  pc # "extract" =>
    /\ prior.kind = "missing" => pc = "write" /\ result # "err" /\ preamble = <<>>
    /\ (prior.kind = "file" /\ NoMarkers(prior.text)) =>
         pc = "write" /\ result # "err" /\ IsTrimOf(preamble, prior.text)

C6_Witness ==
  /\ pc = "write"
  /\ prior.kind = "file"
  /\ NoMarkers(prior.text)
  /\ preamble # <<>>
  /\ Len(preamble) < Len(prior.text)

\* C1 (as claimed): two runs in a row that both write the output document,
\* with the same fragments, exclusion list and mode and no edit in between,
\* leave the same document.
C1_Idempotent ==
  \A i \in 1..(Len(history) - 1) :
    (history[i].wrote /\ history[i + 1].wrote /\ ~EditedAfter(i))
      => history[i + 1].out = history[i].out

\* C2 (as claimed): text typed before the start marker of a written
\* document is found exactly in the regenerated document, which has exactly
\* one start marker and one end marker.
C2_InsertedTextExact ==
  \A i \in 1..(Len(history) - 1) :
    (history[i].wrote /\ history[i + 1].wrote /\ EditedAfter(i))
      => /\ contains(history[i + 1].out.text, edit.text)
         /\ Count(history[i + 1].out.text, START_MARKER) = 1
         /\ Count(history[i + 1].out.text, END_MARKER) = 1

\* the document run i wrote has one start marker and one end marker, and
\* the text typed into it holds no marker
WellFormedEdit(i) ==
  /\ history[i].wrote /\ history[i + 1].wrote /\ EditedAfter(i)
  /\ Count(history[i].out.text, START_MARKER) = 1
  /\ Count(history[i].out.text, END_MARKER) = 1
  /\ NoMarkers(edit.text)

\* C2 (amended): when the written document has exactly one start and one
\* end marker and the typed text holds no marker, the document regenerated
\* from the same fragments in the same mode contains the typed text without
\* its leading and trailing whitespace, and has exactly one start marker
\* and one end marker.
C2_InsertedTextTrimmed ==
  \A i \in 1..(Len(history) - 1) :
    WellFormedEdit(i)
      => /\ contains(history[i + 1].out.text, Trimmed(edit.text))
         /\ Count(history[i + 1].out.text, START_MARKER) = 1
         /\ Count(history[i + 1].out.text, END_MARKER) = 1

C2_Witness ==
  /\ Len(history) = 2
  /\ WellFormedEdit(1)
  /\ edit.text = <<"x", " ">>
  /\ package_content # <<>>
  /\ ~contains(history[2].out.text, edit.text)

\* the prior output file has a start marker and no end marker
StartOnly(file) ==
  /\ file.kind = "file"
  /\ HasTok(file.text, START_MARKER)
  /\ ~HasTok(file.text, END_MARKER)

\* C3: a prior output file with a start marker and no end marker is taken
\* whole (trimmed) as the preamble, and the regenerated document is that
\* content, a blank line and a fresh generated section: nothing of the prior
\* content is dropped.
C3_StartOnlyKeptWhole ==
  StartOnly(prior) =>
    /\ pc = "write" => IsTrimOf(preamble, prior.text)
    /\ (pc = "done" /\ wrote) =>
         /\ out.kind = "file"
         /\ \E k \in 1..Len(out.text) :
              /\ IsTrimOf(SubSeq(out.text, 1, k), prior.text)
              /\ SubSeq(out.text, k + 1, Len(out.text))
                   = <<NL, NL>> \o FreshSection
         /\ FreshSection[1] = START_MARKER

C3_Witness ==
  /\ pc = "done"
  /\ wrote
  /\ StartOnly(prior)
  /\ prior.text = <<"a", START_MARKER>>
  /\ package_content # <<>>

\* the run got as far as reading the prior output file
ReachedExtract == package_content # <<>> \/ sync_args.all

\* C7 (as claimed): an output file that exists but cannot be read makes the
\* extraction fail, so the run ends in an error with the file untouched.
C7_UnreadableAborts ==
  (pc = "done" /\ prior.kind = "unreadable" /\ ReachedExtract)
    => result = "err" /\ out = prior

\* positions (1-based) of the first start marker and the first end marker
FirstAt(s, t, i) == s[i] = t /\ \A k \in 1..(i - 1) : s[k] # t

\* the first end marker comes before the first start marker
Reversed(file) ==
  /\ file.kind = "file"
  /\ \E i \in 1..Len(file.text) :
       /\ FirstAt(file.text, START_MARKER, i)
       /\ \E j \in 1..(i - 1) : FirstAt(file.text, END_MARKER, j)

\* the first start marker comes before the first end marker
WellFormed(file) ==
  /\ file.kind = "file"
  /\ \E i \in 1..Len(file.text) :
       /\ FirstAt(file.text, START_MARKER, i)
       /\ \E j \in (i + 1)..Len(file.text) : FirstAt(file.text, END_MARKER, j)

\* the text before the first start marker / after the first end marker
BeforeStart(s) ==
  SubSeq(s, 1, (CHOOSE i \in 1..Len(s) : FirstAt(s, START_MARKER, i)) - 1)
AfterEnd(s) ==
  SubSeq(s, (CHOOSE j \in 1..Len(s) : FirstAt(s, END_MARKER, j)) + 1, Len(s))

\* C4 (as claimed): an output file whose first end marker precedes its first
\* start marker is kept whole, trimmed, as the preamble.
C4_ReversedKeptWhole ==
  (pc = "write" /\ Reversed(prior)) => IsTrimOf(preamble, prior.text)

\* what C5 says of the extracted text, apart from the markers
ExtractedHalves ==
  /\ preamble = Trimmed(Trimmed(BeforeStart(prior.text))
                          \o Trimmed(AfterEnd(prior.text)))
  /\ contains(preamble, Trimmed(BeforeStart(prior.text)))
  /\ contains(preamble, Trimmed(AfterEnd(prior.text)))
  /\ Len(preamble) <= Len(BeforeStart(prior.text)) + Len(AfterEnd(prior.text))

NotRemoved(rule) ==
  \A k \in 1..Len(sync_args.remove) : sync_args.remove[k] # rule.package_name

\* C8: aggregate_content never fails and returns the input packages whose
\* name is not on the exclusion list, in input order, each with its main
\* file and sub-file list unchanged.
C8_OrderAndExclusion ==
  pc # "aggregate" =>
    LET kept == SelectSeq(usage_rules, NotRemoved)
    IN /\ result # "err"
       /\ Len(package_content) = Len(kept)
       /\ \A i \in 1..Len(kept) :
            /\ package_content[i].name = kept[i].package_name
            /\ package_content[i].content.main_file = kept[i].main_file
            /\ package_content[i].content.sub_files = kept[i].sub_files

C8_Witness ==
  /\ pc = "extract"
  /\ Len(usage_rules) = 2
  /\ Len(package_content) = 1
  /\ package_content[1].name = usage_rules[2].package_name
  /\ package_content[1].content.sub_files # <<>>

\* "## {n}\n\n{t}"
HeadingBlock(n, t) == <<"## ">> \o n \o <<NL, NL>> \o t

\* the rendered package, its main text and its sub-fragments (name, text)
RMain == SrcText(rendered.pkg.content.main_file.val)
RSubName(i) == rendered.pkg.content.sub_files[i].relative_path_name
RSubText(i) == SrcText(rendered.pkg.content.sub_files[i].full_path)
RHasMain == rendered.pkg.content.main_file.some
RSubs == Len(rendered.pkg.content.sub_files)

\* C9 (as claimed): main text M and sub-fragments (n1,t1), (n2,t2) render to
\* M, a blank line, "## n1\n\nt1", a blank line, "## n2\n\nt2"; "Main" with
\* the sub-fragment ("async", "Async content") renders to
\* "Main\n\n## async\n\nAsync content".
C9_JoinedByBlankLine ==
  (rendered.done /\ rendered.res.ok /\ RHasMain) =>
    /\ RSubs = 1 =>
         rendered.res.val = RMain \o <<NL, NL>> \o HeadingBlock(RSubName(1), RSubText(1))
    /\ RSubs = 2 =>
         rendered.res.val =
           RMain \o <<NL, NL>> \o HeadingBlock(RSubName(1), RSubText(1))
                 \o <<NL, NL>> \o HeadingBlock(RSubName(2), RSubText(2))

\* C9 (amended): the parts are joined by "\n\n" and every sub-fragment part
\* is "\n## n\n\nt", so three newlines precede each heading: M, "\n\n",
\* "\n## n1\n\nt1", "\n\n", "\n## n2\n\nt2"; "Main" with the sub-fragment
\* ("async", "Async content") renders to "Main\n\n\n## async\n\nAsync content".
C9_JoinedWithLeadingNewline ==
  (rendered.done /\ rendered.res.ok /\ RHasMain) =>
    /\ RSubs = 1 =>
         rendered.res.val =
           RMain \o <<NL, NL>> \o <<NL>> \o HeadingBlock(RSubName(1), RSubText(1))
    /\ RSubs = 2 =>
         rendered.res.val =
           RMain \o <<NL, NL>> \o <<NL>> \o HeadingBlock(RSubName(1), RSubText(1))
                 \o <<NL, NL>> \o <<NL>> \o HeadingBlock(RSubName(2), RSubText(2))
    /\ rendered.pkg = PackageContentInfo(PkgA) =>
         rendered.res.val =
           <<"Main", NL, NL, NL, "## ", "async", NL, NL, "Async content">>

C9_Witness ==
  /\ rendered.done
  /\ rendered.res.ok
  /\ rendered.pkg = PackageContentInfo(PkgQ)

\* every sub-file of the rendered package could be read
RSubsReadable ==
  \A i \in 1..RSubs : rendered.pkg.content.sub_files[i].full_path \notin rendered.bad

\* C10 (as claimed): a package with sub-fragments and no main fragment
\* renders without error to a text that starts with "## {n1}"; a package
\* with no fragment renders to the empty string.
C10_NoMainStartsWithHeading ==
  (rendered.done /\ ~RHasMain) =>
    /\ (RSubs > 0 /\ RSubsReadable) =>
         /\ rendered.res.ok
         /\ SubSeq(rendered.res.val, 1, 1 + Len(RSubName(1)))
              = <<"## ">> \o RSubName(1)
    /\ RSubs = 0 => rendered.res = Ok(<<>>)

\* C10 (amended): a package with sub-fragments and no main fragment renders
\* without error, the main part is omitted and the text starts with a
\* newline followed by the first sub-fragment's heading block, "\n## {n1}";
\* a package with no fragment renders to the empty string.
C10_NoMainStartsWithNewlineHeading ==
  (rendered.done /\ ~RHasMain) =>
    /\ (RSubs > 0 /\ RSubsReadable) =>
         /\ rendered.res.ok
         /\ SubSeq(rendered.res.val, 1, 2 + Len(RSubName(1)))
              = <<NL, "## ">> \o RSubName(1)
         /\ SubSeq(rendered.res.val, 1,
                   1 + Len(HeadingBlock(RSubName(1), RSubText(1))))
              = <<NL>> \o HeadingBlock(RSubName(1), RSubText(1))
    /\ RSubs = 0 => rendered.res = Ok(<<>>)

C10_Witness ==
  /\ rendered.done
  /\ rendered.res.ok
  /\ rendered.pkg = PackageContentInfo(PkgR)

\* ---------------------------------------------------------------- C11
\* the backing files of a package's fragments
FragmentPaths(pkg) ==
  (IF pkg.content.main_file.some THEN {pkg.content.main_file.val} ELSE {})
    \cup {pkg.content.sub_files[i].full_path : i \in 1..Len(pkg.content.sub_files)}

C12_SectionExact ==
  formatted.done =>
    LET n == formatted.pkg.name
    IN IF formatted.link.some
       THEN /\ formatted.res =
                 Ok(<<"## ">> \o n \o <<" usage", NL, "[">> \o n
                      \o <<" usage rules](", "./">> \o formatted.link.val
                      \o <<"/">> \o n \o <<"/">> \o n \o <<".md", ")">>)
            /\ formatted.reads = <<>>
       ELSE LET c == get_aggregated_content(formatted.pkg, formatted.bad)
            IN /\ formatted.res.ok = c.ok
               /\ c.ok => formatted.res.val = <<"## ">> \o n \o <<" usage", NL>> \o c.val

C12_Witness ==
  /\ formatted.done
  /\ formatted.link.some
  /\ formatted.res.ok
  /\ formatted.pkg = PackageContentInfo(PkgP)
  /\ formatted.bad = {"p/usage-rules.md"}
RECURSIVE BlankLineJoined(_, _)
BlankLineJoined(parts, i) ==
  IF i > Len(parts) THEN <<>>
  ELSE (IF i > 1 THEN <<NL, NL>> ELSE <<>>) \o parts[i] \o BlankLineJoined(parts, i + 1)

\* the section of every scanned package that is not excluded, in scan order
KeptSections ==
  LET kept == SelectSeq(usage_rules, NotRemoved)
      link == IF sync_args.linked THEN Some(folder_name(sync_args.link_folder))
              ELSE None
  IN [i \in 1..Len(kept) |->
        format_package_section(PackageContentInfo(kept[i]), link, {}).val]

LinkedSucceeded == pc = "done" /\ wrote /\ sync_args.linked

\* the link folder holds `text` at folder/name/file
HoldsCopy(name, file, text) ==
  LET path == sync_args.link_folder \o <<"/">> \o name \o <<"/">> \o file
  IN path \in DOMAIN linkfs /\ linkfs[path] = text

\* C15: after write_linked succeeded, for every package of its input the
\* file {folder}/{name}/{name}.md holds a copy of the main fragment, and for
\* every sub-fragment the file {folder}/{name}/{relativeName}.md holds a
\* copy of that sub-fragment.
C15_CopiesAtNamedPaths ==
  LinkedSucceeded =>
    \A i \in 1..Len(package_content) :
      LET pkg == package_content[i]
      IN /\ pkg.content.main_file.some =>
              HoldsCopy(pkg.name, pkg.name \o <<".md">>,
                        SrcText(pkg.content.main_file.val))
         /\ \A j \in 1..Len(pkg.content.sub_files) :
              HoldsCopy(pkg.name,
                        pkg.content.sub_files[j].relative_path_name \o <<".md">>,
                        SrcText(pkg.content.sub_files[j].full_path))
\* ---------------------------------------------------------------- C16
\* a directory creation or a copy of the current run failed
CopyPhaseFailed ==
  \E k \in 1..Len(iolog) : iolog[k].op \in {"mkdir", "copy"} /\ ~iolog[k].ok

\* the fragments of package pkg were all copied before operation k
CopiedBefore(pkg, k) ==
  \A path \in FragmentPaths(pkg) :
    \E j \in 1..(k - 1) : iolog[j].op = "copy" /\ iolog[j].src = path /\ iolog[j].ok

\* C16: in linked mode the output document is written only after the
\* fragments of every package were copied; when a directory creation or a
\* copy fails the run ends in error with the output document unwritten and
\* as it was before the run, and every file copied before the failure is
\* still in the link folder.
C16_CopyPhaseFirst ==
  sync_args.linked =>
    /\ \A k \in 1..Len(iolog) :
         iolog[k].op = "write" =>
           /\ ~CopyPhaseFailed
           /\ \A i \in 1..Len(package_content) : CopiedBefore(package_content[i], k)
    /\ wrote => copied = Len(package_content)
    /\ CopyPhaseFailed =>
         /\ pc = "done"
         /\ result = "err"
         /\ ~wrote
         /\ out = prior
         /\ \A k \in 1..Len(iolog) :
              (iolog[k].op = "copy" /\ iolog[k].ok) => iolog[k].dest \in DOMAIN linkfs

C16_Witness ==
  /\ sync_args.linked
  /\ CopyPhaseFailed
  /\ copied = 1
  /\ \E k \in 1..Len(iolog) : iolog[k].op = "copy" /\ iolog[k].ok
  /\ \E k \in 1..Len(iolog) : iolog[k].op = "copy" /\ ~iolog[k].ok
  /\ prior.kind = "file"
\* ---------------------------------------------------------------- C17
\* a read of a fragment failed in the current run
ReadFailed == \E k \in 1..Len(iolog) : iolog[k].op = "read" /\ ~iolog[k].ok

\* C17: in inline mode, when the read of a fragment fails, rendering the
\* package that owns it fails (get_aggregated_content and
\* format_package_section), nothing is read after the failed read, the run
\* ends in error and the output document is unwritten and as it was before
\* the run.
C17_InlineReadFailureAborts ==
  (~sync_args.linked /\ ReadFailed) =>
    /\ pc = "done"
    /\ result = "err"
    /\ ~wrote
    /\ out = prior
    /\ ~iolog[Len(iolog)].ok
    /\ \A k \in 1..Len(iolog) :
         /\ iolog[k].op # "write"
         /\ (iolog[k].op = "read" /\ ~iolog[k].ok) =>
              /\ k = Len(iolog)
              /\ \E i \in 1..Len(package_content) :
                   /\ iolog[k].src \in FragmentPaths(package_content[i])
                   /\ ~get_aggregated_content(package_content[i], {iolog[k].src}).ok
                   /\ ~format_package_section(package_content[i], None,
                                              {iolog[k].src}).ok

C17_Witness ==
  /\ ~sync_args.linked
  /\ ReadFailed
  /\ Len(package_content) = 2
  /\ iolog[Len(iolog)].src \in FragmentPaths(package_content[1])
  /\ prior.kind = "file"
  /\ prior.text # <<>>
\* ---------------------------------------------------------------- C18
\* C18: within a run, in either mode, the output document is written at most
\* once, the write comes after the extraction of the preamble from the
\* existing output document, and the document changes through that write
\* only.
C18_ExtractBeforeWrite ==
  pc # "idle" =>
    /\ \A k \in 1..Len(iolog) :
         iolog[k].op = "write" =>
           /\ \E j \in 1..(k - 1) : iolog[j].op = "extract" /\ iolog[j].ok
           /\ \A j \in 1..Len(iolog) : iolog[j].op = "write" => j = k
    /\ out # prior =>
         \E k \in 1..Len(iolog) : iolog[k].op = "write" /\ iolog[k].ok

C18_Witness ==
  /\ pc = "done"
  /\ wrote
  /\ sync_args.linked
  /\ prior.kind = "file"
  /\ preamble # <<>>
  /\ out # prior
\* ---------------------------------------------------------------- C19
\* the dependency has a usage-rules.md file at its root
HasMainFile(dep) == DepDisk(dep.path).main_file.some

\* the current run has scanned the dependencies
Scanned == \E k \in 1..Len(iolog) : iolog[k].op = "scan"

SomethingFailed == \E k \in 1..Len(iolog) : ~iolog[k].ok

\* C20: a run in which something failed ends with exit code 1 and a printed
\* error, and a run in which nothing failed ends with exit code 0 and
\* prints no error.
C20_ExitCodeTellsFailure ==
  /\ pc = "done" =>
       /\ result \in {"ok", "err"}
       /\ SomethingFailed <=> exit_code(result) = 1
       /\ ~SomethingFailed <=> exit_code(result) = 0
  /\ \A i \in 1..Len(history) :
       /\ history[i].code = (IF history[i].result = "err" THEN 1 ELSE 0)
       /\ history[i].printed <=> history[i].code = 1
\* ---------------------------------------------------------------- C21
\* the generated section of the document the current run wrote
WrittenSection ==
  SubSeq(out.text, Len(out.text) - Len(FreshSection) + 1, Len(out.text))

\* its header: what follows the start marker and its blank line, up to the
\* end of the embedded general usage document
WrittenHeader ==
  SubSeq(WrittenSection, 4, find(WrittenSection, BASE_MD).val + 1)

\* sentences (tokens that are not whitespace) of a text
SentenceCount(s) == Cardinality({i \in 1..Len(s) : s[i] \notin WS})

\* h is the text base with n sentences inserted at one place, the sentence
\* about separate files among them
InsertsSentences(h, base, n) ==
  /\ Len(h) >= Len(base)
  /\ \E i \in 0..Len(base) :
       LET k == Len(h) - Len(base)
           x == SubSeq(h, i + 1, i + k)
       IN /\ SubSeq(h, 1, i) = SubSeq(base, 1, i)
          /\ SubSeq(h, i + k + 1, Len(h)) = SubSeq(base, i + 1, Len(base))
          /\ SentenceCount(x) = n
          /\ HasTok(x, SEPARATE_FILES_SENTENCE)

\* what both headers hold: the boilerplate and the embedded document
HoldsBoilerplate(h) ==
  /\ HasTok(h, IMPORTANT_SENTENCE)
  /\ HasTok(h, BEFORE_SENTENCE)
  /\ HasTok(h, GENERAL_SENTENCE)
  /\ HasTok(h, "## General Rust Usage")
  /\ h[Len(h)] = BASE_MD

\* the header of a written document, against the inline header with n
\* sentences added in linked mode
HeaderAddsSentences(n) ==
  (pc = "done" /\ wrote) =>
    /\ HoldsBoilerplate(WrittenHeader)
    /\ IF sync_args.linked
       THEN InsertsSentences(WrittenHeader, generate_header(FALSE), n)
       ELSE /\ WrittenHeader = generate_header(FALSE)
            /\ ~HasTok(WrittenHeader, SEPARATE_FILES_SENTENCE)

\* C21 as stated: the header written in linked mode is the inline header
\* plus exactly one sentence, the one about separate files; the inline
\* header does not hold that sentence; both hold the boilerplate and the
\* embedded general usage document.
C21_OneExtraSentence == HeaderAddsSentences(1)

\* C21: the header written in linked mode is the inline header plus exactly
\* two sentences at one place, the first of them the one about separate
\* files; the inline header does not hold that sentence; both hold the
\* boilerplate and the embedded general usage document.
C21_TwoExtraSentences ==
  /\ HeaderAddsSentences(2)
  /\ (pc = "done" /\ wrote /\ sync_args.linked) =>
       /\ HasTok(WrittenHeader, REFER_SENTENCE)
       /\ find(WrittenHeader, SEPARATE_FILES_SENTENCE).val
            < find(WrittenHeader, REFER_SENTENCE).val

C21_Witness ==
  /\ pc = "done"
  /\ wrote
  /\ sync_args.linked
  /\ preamble # <<>>
  /\ package_content # <<>>
\* ---------------------------------------------------------------- C22
\* file operations of the writers
WriterOps == {"read", "mkdir", "copy", "write"}

\* operations j and k of the run are the same operation on the same files
SameOperation(j, k) ==
  /\ iolog[j].op = iolog[k].op
  /\ iolog[j].src = iolog[k].src
  /\ iolog[j].dest = iolog[k].dest

\* the writer made at most one write, stopped at its first failed
\* operation and returned an error for it
SingleWriteAndAbort ==
  \A k \in 1..Len(iolog) :
    iolog[k].op \in WriterOps =>
      /\ iolog[k].op = "write" =>
           \A j \in 1..Len(iolog) : iolog[j].op = "write" => j = k
      /\ ~iolog[k].ok => (k = Len(iolog) /\ pc = "done" /\ result = "err")

\* C22 as stated: within a run of a writer no read, copy or directory
\* creation is attempted twice, the output document is written at most
\* once, and the first failed operation is the last one attempted and makes
\* the writer return an error.
C22_EveryOperationOnce ==
  pc # "idle" =>
    /\ SingleWriteAndAbort
    /\ \A j, k \in 1..Len(iolog) :
         (j < k /\ iolog[j].op \in WriterOps) => ~SameOperation(j, k)

\* C22: within a run of a writer no read and no copy is attempted twice and
\* no failed operation is attempted again: only the creation of a directory
\* that was created before is issued again (once for the package, once more
\* for each sub-file in it); the output document is written at most once,
\* and the first failed operation is the last one attempted and makes the
\* writer return an error.
C22_NoRetrySingleWrite ==
  pc # "idle" =>
    /\ SingleWriteAndAbort
    /\ \A j, k \in 1..Len(iolog) :
         (j < k /\ iolog[j].op \in WriterOps /\ SameOperation(j, k)) =>
           (iolog[j].op = "mkdir" /\ iolog[j].ok)

C22_Witness ==
  /\ pc = "done"
  /\ sync_args.linked
  /\ iolog # <<>>
  /\ iolog[Len(iolog)].op = "copy"
  /\ ~iolog[Len(iolog)].ok
  /\ \E j, k \in 1..Len(iolog) : j < k /\ iolog[j].op = "mkdir" /\ SameOperation(j, k)
\* ---------------------------------------------------------------- C23
\* the last component of a folder path, "usage_rules" when the path ends
\* in ".." and so has none
BaseName(path) ==
  IF path[Len(path)] = ".." THEN <<"usage_rules">> ELSE <<path[Len(path)]>>

\* the link to the copy of package `name`
LinkTo(name) ==
  <<"./">> \o BaseName(sync_args.link_folder) \o <<"/">> \o name \o <<"/">>
    \o name \o <<".md", ")">>

\* C23: in the document write_linked wrote, every link starts with "./",
\* the base name of the link folder ("usage_rules" when the folder path has
\* no base name) and is ./{baseName}/{name}/{name}.md for a package of the
\* input; every package of the input has its link.
C23_LinksUseBaseName ==
  LinkedSucceeded =>
    LET section == WrittenSection
    IN /\ \A i \in 1..Len(section) :
            section[i] = "./" =>
              \E p \in 1..Len(package_content) :
                SubSeq(section, i, i + Len(LinkTo(package_content[p].name)) - 1)
                  = LinkTo(package_content[p].name)
       /\ \A p \in 1..Len(package_content) :
            contains(section,
                     <<"[">> \o package_content[p].name \o <<" usage rules](">>
                       \o LinkTo(package_content[p].name))

C23_Witness ==
  /\ LinkedSucceeded
  /\ sync_args.link_folder = <<"out", "/", "docs">>
  /\ Len(package_content) = 2

C23_WitnessNoBaseName ==
  /\ LinkedSucceeded
  /\ sync_args.link_folder = <<"..">>
  /\ package_content # <<>>
\* ---------------------------------------------------------------- C24
\* C24: when a document was composed from a trimmed preamble without
\* markers and any packages, extracting the preamble from that document
\* gives the preamble back.
C24_ExtractUndoesCompose ==
  (pc = "done" /\ wrote /\ Trimmed(preamble) = preamble /\ NoMarkers(preamble)) =>
    extract_agents_md_preamble(out) = Ok(preamble)
\* ---------------------------------------------------------------- C25
\* the user's text of the prior files explored
USER_TEXT == "a"

\* the file holds user text that extraction is to keep: outside the marker
\* pair when the markers are well formed, anywhere otherwise
HoldsUserText(file) ==
  /\ file.kind = "file"
  /\ IF WellFormed(file)
     THEN HasTok(BeforeStart(file.text), USER_TEXT)
            \/ HasTok(AfterEnd(file.text), USER_TEXT)
     ELSE HasTok(file.text, USER_TEXT)

\* C25: in a sequence of runs with no edit in between, the user text that
\* the file before the first run held outside a well-formed marker pair (or
\* anywhere, when its markers were not well formed) is in the file after
\* every run.
C25_UserTextSurvives ==
  \A i \in 1..Len(history) :
    (HoldsUserText(history[1].prior) /\ (edit.kind = "none" \/ edit.at >= i)) =>
      HasTok(history[i].out.text, USER_TEXT)
\* ---------------------------------------------------------------- C26
\* the text after the first end marker of the document the run started from
PriorTail == trim(AfterEnd(prior.text))

\* s ends with t
EndsWith(s, t) ==
  /\ Len(t) <= Len(s)
  /\ SubSeq(s, Len(s) - Len(t) + 1, Len(s)) = t

\* C26: the document a successful sync wrote ends with the freshly
\* generated section, whose last tokens are the end marker and a blank
\* line; the preserved text (the extracted preamble, whose end is the text
\* that followed the end marker of the prior document) lies before the
\* start marker of that section, with only a blank line between them.
C26_EndsWithFreshSection ==
  (pc = "done" /\ wrote) =>
    LET section == FreshSection
        k == Len(out.text) - Len(section)
    IN /\ EndsWith(out.text, section)
       /\ EndsWith(out.text, <<END_MARKER, NL, NL>>)
       /\ out.text[k + 1] = START_MARKER
       /\ Len(preamble) <= k
       /\ SubSeq(out.text, 1, Len(preamble)) = preamble
       /\ SubSeq(out.text, Len(preamble) + 1, k) \in {<<>>, <<NL, NL>>}
       /\ WellFormed(prior) => (LET tail == PriorTail IN EndsWith(preamble, tail))

C26_Witness ==
  /\ pc = "done"
  /\ wrote
  /\ WellFormed(prior)
  /\ PriorTail # <<>>
  /\ EndsWith(preamble, PriorTail)
  /\ EndsWith(out.text, FreshSection)
\* ---------------------------------------------------------------- C27
\* a sync run ended successfully with no package selected
EmptySelectionDone ==
  /\ pc = "done"
  /\ result = "ok"
  /\ ~sync_args.list
  /\ package_content = <<>>

\* operations on the output document or under the link folder
OutputOps == {"read_output", "extract", "read", "mkdir", "copy", "write"}

C27_WitnessAll ==
  /\ EmptySelectionDone
  /\ sync_args.all
  /\ usage_rules # <<>>
  /\ wrote

\* no package has usage rules and --all is not given
C27_WitnessNoRules ==
  /\ EmptySelectionDone
  /\ ~sync_args.all
  /\ usage_rules = <<>>
  /\ out.kind = "file"
\* ---------------------------------------------------------------- C28
\* the paths write_linked copies to for the packages of its input
Destinations ==
  UNION {{copy_list(sync_args.link_folder, package_content[i])[k].dest :
            k \in 1..Len(copy_list(sync_args.link_folder, package_content[i]))} :
         i \in 1..Len(package_content)}

\* the file at path was copied for a package that is not in the input of
\* the current run
Stale(path) == path \in DOMAIN linkfs /\ path \notin Destinations

\* C28: no step of a run deletes a file under the link folder, and a step
\* changes or creates only files at destination paths of the packages in
\* the input of write_linked; the output document changes only when it is
\* written.  So a file copied by an earlier run for a package now excluded
\* or no longer a dependency stays as it is.
C28_LinkedFrame ==
  [][/\ \A path \in DOMAIN linkfs :
          /\ path \in DOMAIN linkfs'
          /\ linkfs'[path] # linkfs[path] => path \in Destinations
     /\ \A path \in DOMAIN linkfs' \ DOMAIN linkfs : path \in Destinations
     /\ out' # out => (pc = "write" /\ wrote')]_vars

\* write_linked succeeded while the link folder held a copy made by an
\* earlier run for a package that is not in its input (excluded, or no
\* longer a dependency)
C28_Witness ==
  /\ pc = "done"
  /\ wrote
  /\ runs = 2
  /\ package_content # <<>>
  /\ \E path \in DOMAIN linkfs :
       /\ Stale(path)
       /\ linkfs[path] = <<"Main q">>
\* ---------------------------------------------------------------- C29
\* the copies write_linked makes in one invocation, over all its packages
CopiesOfRun ==
  UNION {{copy_list(sync_args.link_folder, package_content[i])[k] :
            k \in 1..Len(copy_list(sync_args.link_folder, package_content[i]))} :
         i \in 1..Len(package_content)}

\* C29: after write_linked succeeded, two different fragments were never
\* copied to one destination, and for every package of the input the file
\* {folder}/{name}/{name}.md holds that package's main fragment.
C29_DistinctDestinations ==
  LinkedSucceeded =>
    /\ \A c1, c2 \in CopiesOfRun : c1.src # c2.src => c1.dest # c2.dest
    /\ \A i \in 1..Len(package_content) :
         package_content[i].content.main_file.some =>
           HoldsCopy(package_content[i].name,
                     package_content[i].name \o <<".md">>,
                     SrcText(package_content[i].content.main_file.val))
====
